---------------------------- MODULE Spec2Model ----------------------------
(***************************************************************************)
(* A model of midbel/mack: the ar archive codec (package ar: Writer,       *)
(* Reader, List) and the RPM tag-header encoder and package builder        *)
(* (package rpm: writeFields, writeLead, builder.Build).                   *)
(*                                                                         *)
(* Bytes are the integers 0..255 and a byte string is a sequence of them.  *)
(* A Go error is a string, "nil" when there is none; a *Header is a        *)
(* sequence of length 0 (nil) or 1 (one Header record).                    *)
(***************************************************************************)
EXTENDS Integers, Sequences, FiniteSets, TLC

VARIABLES
    r,        \* ar: the Reader {inner, hdr, err}; inner is the bufio.Reader over the source
    last,     \* ar: the last call made on the Reader and what it returned
    crashed,  \* ar: a call panicked (nil dereference, negative slice length)
    arch,     \* ar: the description of the archive the source holds (an input)
    lst,      \* ar: List's position, the headers collected and its return values
    w,        \* ar: the Writer {inner, hdr, err}; inner is the sink's content
    drv,      \* ar: the caller of the Writer: the entries to write and the progress
    fs,       \* rpm: the Field list handed to writeFields
    pad,      \* rpm: writeFields' pad argument
    enc,      \* rpm: what writeFields returned, <<>> before the call, else <<bytes>>
    bld       \* rpm: builder.Build's position, its locals, the sink and the return value

vars == <<r, last, crashed, arch, lst, w, drv, fs, pad, enc, bld>>

-----------------------------------------------------------------------------
(* Bytes and byte strings *)

Min(a, b) == IF a < b THEN a ELSE b

SP == 32
LF == 10
BQ == 96
SLASH == 47
DOT == 46
MINUS == 45
PLUS == 43
ZERO == 48

\* var magic = []byte("!<arch>")
magic == <<33, 60, 97, 114, 99, 104, 62>>
\* var linefeed = []byte{0x60, 0x0A}
linefeed == <<BQ, LF>>

\* strings.Repeat(s, n) for a one-byte s; the call panics when n < 0
Repeat(b, n) == [i \in 1..n |-> b]

Take(s, n) == SubSeq(s, 1, Min(n, Len(s)))
Drop(s, n) == SubSeq(s, n + 1, Len(s))

RECURSIVE Concat(_)
Concat(ss) == IF ss = <<>> THEN <<>> ELSE Head(ss) \o Concat(Tail(ss))

RECURSIVE SumSeq(_)
SumSeq(s) == IF s = <<>> THEN 0 ELSE Head(s) + SumSeq(Tail(s))

\* unicode.IsSpace on an ASCII byte
IsSpace(b) == b \in {9, 10, 11, 12, 13, 32}

RECURSIVE TrimLeft(_)
TrimLeft(s) == IF s # <<>> /\ IsSpace(Head(s)) THEN TrimLeft(Tail(s)) ELSE s

RECURSIVE TrimRight(_)
TrimRight(s) ==
    IF s # <<>> /\ IsSpace(s[Len(s)]) THEN TrimRight(SubSeq(s, 1, Len(s) - 1)) ELSE s

\* bytes.TrimSpace
TrimSpace(s) == TrimRight(TrimLeft(s))

-----------------------------------------------------------------------------
(* strconv *)

RECURSIVE FormatUint(_, _)
FormatUint(n, base) ==
    IF n < base THEN <<ZERO + n>>
    ELSE FormatUint(n \div base, base) \o <<ZERO + (n % base)>>

\* strconv.FormatInt(n, base) for base <= 10
FormatInt(n, base) ==
    IF n < 0 THEN <<MINUS>> \o FormatUint(0 - n, base) ELSE FormatUint(n, base)

\* lower(c) of strconv: c | ('x' - 'X')
Lower(c) == IF c >= 65 /\ c <= 90 THEN c + 32 ELSE c

\* the digit value of a byte, 99 when it is no digit of any base
DigitVal(c) ==
    IF c >= 48 /\ c <= 57 THEN c - 48
    ELSE IF Lower(c) >= 97 /\ Lower(c) <= 122 THEN Lower(c) - 97 + 10
    ELSE 99

RECURSIVE ParseDigits(_, _, _)
\* the loop of strconv.ParseUint: [v, err].  A field is at most 16 bytes wide
\* and the bounded inputs stay far below 2^63, so ErrRange never arises.
ParseDigits(s, base, acc) ==
    IF s = <<>> THEN [v |-> acc, err |-> "nil"]
    ELSE IF DigitVal(Head(s)) >= base THEN [v |-> 0, err |-> "ErrSyntax"]
    ELSE ParseDigits(Tail(s), base, acc * base + DigitVal(Head(s)))

\* strconv.ParseUint(s, 0, 64): the base comes from the prefix
\* ("0x" 16, "0o" 8, "0b" 2, "0" 8, else 10).  The inputs hold no '_'.
ParseUint0(s) ==
    IF s = <<>> THEN [v |-> 0, err |-> "ErrSyntax"]
    ELSE IF Head(s) = ZERO THEN
        IF Len(s) >= 3 /\ Lower(s[2]) = 98 THEN ParseDigits(Drop(s, 2), 2, 0)
        ELSE IF Len(s) >= 3 /\ Lower(s[2]) = 111 THEN ParseDigits(Drop(s, 2), 8, 0)
        ELSE IF Len(s) >= 3 /\ Lower(s[2]) = 120 THEN ParseDigits(Drop(s, 2), 16, 0)
        ELSE ParseDigits(Drop(s, 1), 8, 0)
    ELSE ParseDigits(s, 10, 0)

\* the sign applied to what ParseUint returned
Signed(neg, u) ==
    IF u.err # "nil" THEN u ELSE [v |-> IF neg THEN 0 - u.v ELSE u.v, err |-> "nil"]

\* strconv.ParseInt(s, 0, 64)
ParseInt0(s) ==
    IF s = <<>> THEN [v |-> 0, err |-> "ErrSyntax"]
    ELSE Signed(Head(s) = MINUS, ParseUint0(IF Head(s) \in {MINUS, PLUS} THEN Tail(s) ELSE s))

RECURSIVE LastIndexSlash(_)
LastIndexSlash(s) ==
    IF s = <<>> THEN 0
    ELSE IF s[Len(s)] = SLASH THEN Len(s)
    ELSE LastIndexSlash(SubSeq(s, 1, Len(s) - 1))

RECURSIVE StripSlashes(_)
StripSlashes(s) ==
    IF s # <<>> /\ s[Len(s)] = SLASH THEN StripSlashes(SubSeq(s, 1, Len(s) - 1)) ELSE s

\* the last element of a path stripped of its trailing slashes
LastElement(t) == Drop(t, LastIndexSlash(t))

\* "/" for a path of slashes only
OrSlash(u) == IF u = <<>> THEN <<SLASH>> ELSE u

\* path.Base
PathBase(s) == IF s = <<>> THEN <<DOT>> ELSE OrSlash(LastElement(StripSlashes(s)))

-----------------------------------------------------------------------------
(* package ar: Header and Writer *)

Header(name, uid, gid, mode, length, modtime) ==
    [Name |-> name, Uid |-> uid, Gid |-> gid, Mode |-> mode, Length |-> length,
     ModTime |-> modtime]

\* time.Time as whole seconds since the epoch and the nanoseconds within the second
Time(sec, nsec) == [sec |-> sec, nsec |-> nsec]
\* time.Unix(i, 0)
TimeUnix(i) == Time(i, 0)
\* Time.Unix()
UnixOf(t) == t.sec

NilHeader == <<>>

\* writeHeaderField: the text, then spaces up to the width n
writeHeaderField(s, n) == s \o Repeat(SP, n - Len(s))

\* the text of the name field: path.Base(h.Name) + "/"
NameText(h) == PathBase(h.Name) \o <<SLASH>>

\* the text of the mode field
ModeText(h) == FormatInt(h.Mode, 8)

\* strings.Repeat panics on a negative count: a text wider than its field
WriteHeaderPanics(h) ==
    \/ Len(NameText(h)) > 16
    \/ Len(FormatInt(UnixOf(h.ModTime), 10)) > 12
    \/ Len(FormatInt(h.Uid, 10)) > 6
    \/ Len(FormatInt(h.Gid, 10)) > 6
    \/ Len(ModeText(h)) > 8
    \/ Len(FormatInt(h.Length, 10)) > 10

\* the 60 bytes WriteHeader hands to the sink
HeaderBytes(h) ==
    writeHeaderField(NameText(h), 16)
        \o writeHeaderField(FormatInt(UnixOf(h.ModTime), 10), 12)
        \o writeHeaderField(FormatInt(h.Uid, 10), 6)
        \o writeHeaderField(FormatInt(h.Gid, 10), 6)
        \o writeHeaderField(ModeText(h), 8)
        \o writeHeaderField(FormatInt(h.Length, 10), 10)
        \o linefeed

\* NewWriter on a sink that accepts every write: the magic, then linefeed[1]
NewWriter == [inner |-> magic \o <<linefeed[2]>>, hdr |-> NilHeader, err |-> "nil"]

\* Writer.WriteHeader, when it does not panic
WriterWriteHeader(wr, h) ==
    IF wr.err # "nil" THEN [w |-> wr, err |-> wr.err]
    ELSE [w |-> [wr EXCEPT !.hdr = <<h>>, !.inner = wr.inner \o HeaderBytes(h)],
          err |-> "nil"]

\* what Writer.Write hands to the sink for bs: bs, and linefeed[1] when len(bs) is odd
WritePadded(bs) == IF Len(bs) % 2 = 1 THEN bs \o <<linefeed[2]>> ELSE bs

\* Writer.Write
WriterWrite(wr, bs) ==
    [w |-> [wr EXCEPT !.inner = wr.inner \o WritePadded(bs)], n |-> Len(bs), err |-> "nil"]

-----------------------------------------------------------------------------
(* package ar: Reader *)

\* The bufio.Reader over the source: the source's bytes, how many of them were
\* consumed, and what the source answers once its bytes are used up (io.EOF,
\* or a read failure).
Inner(data, fail) == [data |-> data, pos |-> 0, fail |-> fail]

Avail(in) == Len(in.data) - in.pos

\* io.ReadFull's error for k bytes read of the n asked for
ReadFullErr(in, k, n) ==
    IF k = n THEN "nil"
    ELSE IF k = 0 THEN in.fail
    ELSE IF in.fail = "EOF" THEN "ErrUnexpectedEOF"
    ELSE in.fail

\* io.ReadFull(in, n bytes) reading k of them
ReadFullOf(in, n, k) ==
    [in  |-> [in EXCEPT !.pos = in.pos + k],
     bs  |-> SubSeq(in.data, in.pos + 1, in.pos + k),
     n   |-> k,
     err |-> ReadFullErr(in, k, n)]

ReadFull(in, n) == ReadFullOf(in, n, Min(n, Avail(in)))

\* bufio.Reader.Discard(n)
Discard(in, n) == [in EXCEPT !.pos = in.pos + Min(n, Avail(in))]

\* bytes.TrimSpace(bs) of what io.ReadFull gave, nil on an error
TrimField(f) ==
    IF f.err # "nil" THEN [in |-> f.in, bs |-> <<>>, err |-> f.err]
    ELSE [in |-> f.in, bs |-> TrimSpace(f.bs), err |-> "nil"]

readHeaderField(in, n) == TrimField(ReadFull(in, n))

\* i, err := strconv.ParseInt(string(bs), 0, 64) on the field read
ParsedField(f, p) ==
    IF f.err # "nil" THEN [in |-> f.in, v |-> 0, err |-> f.err]
    ELSE [in |-> f.in, v |-> p.v, err |-> p.err]

ParseField(f) == ParsedField(f, ParseInt0(f.bs))

\* a numeric field: readHeaderField, then strconv.ParseInt
readNumber(in, n) == ParseField(readHeaderField(in, n))

SetName(h, f) ==
    IF f.err # "nil" THEN [in |-> f.in, h |-> h, err |-> f.err]
    ELSE [in |-> f.in, h |-> [h EXCEPT !.Name = f.bs], err |-> "nil"]

readFilename(in, h) == SetName(h, readHeaderField(in, 16))

SetModTime(h, f) ==
    IF f.err # "nil" THEN [in |-> f.in, h |-> h, err |-> f.err]
    ELSE [in |-> f.in, h |-> [h EXCEPT !.ModTime = TimeUnix(f.v)], err |-> "nil"]

readModTime(in, h) == SetModTime(h, readNumber(in, 12))

SetLength(h, f) ==
    IF f.err # "nil" THEN [in |-> f.in, h |-> h, err |-> f.err]
    ELSE [in |-> f.in, h |-> [h EXCEPT !.Length = f.v], err |-> "nil"]

SetMode(h, f) ==
    IF f.err # "nil" THEN [in |-> f.in, h |-> h, err |-> f.err]
    ELSE SetLength([h EXCEPT !.Mode = f.v], readNumber(f.in, 10))

SetGid(h, f) ==
    IF f.err # "nil" THEN [in |-> f.in, h |-> h, err |-> f.err]
    ELSE SetMode([h EXCEPT !.Gid = f.v], readNumber(f.in, 8))

SetUid(h, f) ==
    IF f.err # "nil" THEN [in |-> f.in, h |-> h, err |-> f.err]
    ELSE SetGid([h EXCEPT !.Uid = f.v], readNumber(f.in, 6))

readFileInfos(in, h) == SetUid(h, readNumber(in, 6))

\* var h Header
ZeroHeader == Header(<<>>, 0, 0, 0, 0, Time(0, 0))

NoReader == [inner |-> Inner(<<>>, "EOF"), hdr |-> NilHeader, err |-> "nil"]

\* NewReader: Peek(len(magic)), compare, Discard(len(magic) + 1)
NewReader(data, fail) ==
    IF Len(data) < Len(magic) THEN [ok |-> FALSE, r |-> NoReader, err |-> fail]
    ELSE IF Take(data, Len(magic)) # magic THEN [ok |-> FALSE, r |-> NoReader, err |-> "ErrMagic"]
    ELSE IF Len(data) < Len(magic) + 1 THEN [ok |-> FALSE, r |-> NoReader, err |-> fail]
    ELSE [ok |-> TRUE,
          r |-> [inner |-> Discard(Inner(data, fail), Len(magic) + 1), hdr |-> NilHeader,
                 err |-> "nil"],
          err |-> "nil"]

\* The bytes r.inner.Read(bs) puts in the 2-byte bs of Next.  bufio's Read
\* returns what is buffered, or the result of one read of the source, so it
\* may return 1 byte where 2 are to come (short); bs starts as zeroes.
ReadTrailerOf(in, k) ==
    [in  |-> [in EXCEPT !.pos = in.pos + k],
     bs  |-> SubSeq(in.data, in.pos + 1, in.pos + k) \o Repeat(0, Len(linefeed) - k),
     err |-> IF k = 0 THEN in.fail ELSE "nil"]

ReadTrailer(in, short) ==
    ReadTrailerOf(in, IF short THEN Min(1, Avail(in)) ELSE Min(Len(linefeed), Avail(in)))

\* a field could not be read or parsed: r.err = err; return nil, err
NextFails(rd, x) ==
    [r |-> [rd EXCEPT !.inner = x.in, !.err = x.err], h |-> NilHeader, err |-> x.err]

\* The trailer: "if _, err := r.inner.Read(bs); err != nil || !bytes.Equal(bs,
\* linefeed) { return nil, err }", the read's own err, nil when it gave bytes;
\* else r.hdr = &h; return r.hdr, r.err
NextTrailer(rd, h, t) ==
    IF t.err # "nil" \/ t.bs # linefeed
    THEN [r |-> [rd EXCEPT !.inner = t.in], h |-> NilHeader, err |-> t.err]
    ELSE [r |-> [rd EXCEPT !.inner = t.in, !.hdr = <<h>>], h |-> <<h>>, err |-> rd.err]

NextInfos(rd, c, short) ==
    IF c.err # "nil" THEN NextFails(rd, c) ELSE NextTrailer(rd, c.h, ReadTrailer(c.in, short))

NextModTime(rd, b, short) ==
    IF b.err # "nil" THEN NextFails(rd, b) ELSE NextInfos(rd, readFileInfos(b.in, b.h), short)

NextFilename(rd, a, short) ==
    IF a.err # "nil" THEN NextFails(rd, a) ELSE NextModTime(rd, readModTime(a.in, a.h), short)

\* Reader.Next: [r, h, err].  A failed Peek(16) is answered io.EOF whatever
\* the failure was.
ReaderNext(rd, short) ==
    IF rd.err # "nil" THEN [r |-> rd, h |-> NilHeader, err |-> rd.err]
    ELSE IF Avail(rd.inner) < 16 THEN [r |-> rd, h |-> NilHeader, err |-> "EOF"]
    ELSE NextFilename(rd, readFilename(rd.inner, ZeroHeader), short)

\* the bytes Read discards after the payload of an entry of the given length
PadLen(length) == IF length % 2 = 1 THEN 1 ELSE 0

\* Reader.Read panics: r.hdr is nil (no Next gave a header), or make([]byte, n) with n < 0
ReadPanics(rd) == rd.err = "nil" /\ (rd.hdr = NilHeader \/ rd.hdr[1].Length < 0)

\* n, err := io.ReadFull(r.inner, vs); r.err = err when it is not nil; the
\* pad byte discarded; return copy(bs, vs[:n]), r.err
ReadPayload(rd, buflen, f) ==
    [r |-> [rd EXCEPT !.inner = Discard(f.in, PadLen(rd.hdr[1].Length)),
                      !.err = IF f.err # "nil" THEN f.err ELSE rd.err],
     n |-> Min(buflen, f.n),
     data |-> Take(f.bs, buflen),
     err |-> IF f.err # "nil" THEN f.err ELSE rd.err]

\* Reader.Read(bs) with len(bs) = buflen, when it does not panic: [r, n, data, err]
ReaderRead(rd, buflen) ==
    IF rd.err # "nil" THEN [r |-> rd, n |-> 0, data |-> <<>>, err |-> rd.err]
    ELSE ReadPayload(rd, buflen, ReadFull(rd.inner, rd.hdr[1].Length))

-----------------------------------------------------------------------------
(* package rpm: Field and writeFields *)

SigTypeRPM == 5
MajorRPM == 3
MinorRPM == 0
\* MagicRPM = 0xedabeedb, as the 4 bytes binary.Write gives the uint32
MagicRPM == <<237, 171, 238, 219>>
MagicHDR == 9350632

SigLength == 1000
SigMD5 == 1004
SigSha1 == 256 + 13

TagPackage == 1000
TagVersion == 1001
TagSummary == 1004
TagDesc == 1005
TagVendor == 1011
TagLicense == 1014
TagURL == 1020

\* EntryType, declared elsewhere in package rpm: the RPM type codes
Int8 == 2
Int16 == 3
Int32 == 4
Int64 == 5
String == 6
Binary == 7

\* byte k (0 the lowest) of the two's complement of v, for |v| < 2^31
ByteOf(v, k) == IF k >= 4 THEN (IF v < 0 THEN 255 ELSE 0) ELSE (v \div (256 ^ k)) % 256

\* binary.Write(.., binary.BigEndian, v) for an integer of n bytes
BigEndian(v, n) == [i \in 1..n |-> ByteOf(v, n - i)]

\* The three Field types as one record: number{tag, kind, Value} keeps its
\* Value in Num; binarray{tag, Value} and varchar{tag, Value} keep the bytes
\* in Value.
number(tag, kind, value) ==
    [variant |-> "number", tag |-> tag, kind |-> kind, Num |-> value, Value |-> <<>>]
binarray(tag, value) ==
    [variant |-> "binarray", tag |-> tag, kind |-> Binary, Num |-> 0, Value |-> value]
varchar(tag, value) ==
    [variant |-> "varchar", tag |-> tag, kind |-> String, Num |-> 0, Value |-> value]

FieldSkip(f) == IF f.variant = "number" THEN FALSE ELSE Len(f.Value) = 0
FieldTag(f) == f.tag
FieldType(f) == f.kind
FieldLen(f) == IF f.variant = "binarray" THEN Len(f.Value) ELSE 1

\* number.Bytes: the value in the width of its kind, nothing for another kind
NumberBytes(f) ==
    IF f.kind = Int8 THEN BigEndian(f.Num, 1)
    ELSE IF f.kind = Int16 THEN BigEndian(f.Num, 2)
    ELSE IF f.kind = Int32 THEN BigEndian(f.Num, 4)
    ELSE IF f.kind = Int64 THEN BigEndian(f.Num, 8)
    ELSE <<>>

FieldBytes(f) ==
    IF f.variant = "number" THEN NumberBytes(f)
    ELSE IF f.variant = "varchar" THEN f.Value \o <<0>>
    ELSE f.Value

\* a variant of IndexEntry: the offset taken after the field's bytes were
\* appended to the store
IndexEntryAfter(f, store) ==
    BigEndian(FieldTag(f), 4) \o BigEndian(FieldType(f), 4)
        \o BigEndian(Len(store) + Len(FieldBytes(f)), 4) \o BigEndian(FieldLen(f), 4)

\* the 16 bytes written to body for f: Tag, Type, int32(store.Len()), Len
IndexEntry(f, store) ==
    BigEndian(FieldTag(f), 4) \o BigEndian(FieldType(f), 4)
        \o BigEndian(Len(store), 4) \o BigEndian(FieldLen(f), 4)

RECURSIVE FieldsLoop(_, _)
\* the loop of writeFields over fs, acc its locals i, body and store
FieldsLoop(fields, acc) ==
    IF fields = <<>> THEN acc
    ELSE IF FieldSkip(Head(fields)) THEN FieldsLoop(Tail(fields), acc)
    ELSE FieldsLoop(Tail(fields),
                    [i |-> acc.i + 1,
                     body |-> acc.body \o IndexEntry(Head(fields), acc.store),
                     store |-> acc.store \o FieldBytes(Head(fields))])

\* uint32((MagicHDR << 8) | 1), then uint32(0)
Prologue ==
    <<ByteOf(MagicHDR, 2), ByteOf(MagicHDR, 1), ByteOf(MagicHDR, 0), 1>> \o BigEndian(0, 4)

\* a variant of Padded: the padding added without the test mod != 0
PaddedAlways(meta, padded) ==
    IF padded THEN meta \o Repeat(0, 8 - (Len(meta) % 8)) ELSE meta

\* if mod := meta.Len() % 8; mod != 0 && pad { meta.Write(make([]byte, 8-mod)) }
Padded(meta, padded) ==
    IF Len(meta) % 8 # 0 /\ padded THEN meta \o Repeat(0, 8 - (Len(meta) % 8)) ELSE meta

\* meta: the prologue, i, int32(store.Len()), then body and store
Section(acc) ==
    Prologue \o BigEndian(acc.i, 4) \o BigEndian(Len(acc.store), 4) \o acc.body \o acc.store

\* writeFields(fs, pad): the bytes of the buffer returned (err is nil: the
\* copies are between bytes.Buffers)
writeFields(fields, padded) ==
    Padded(Section(FieldsLoop(fields, [i |-> 0, body |-> <<>>, store |-> <<>>])), padded)

\* controlToFields, for a Control with Package and Version (the other
\* attributes empty)
controlToFields(c) ==
    << varchar(TagPackage, c.Package), varchar(TagVersion, c.Version),
       varchar(TagSummary, <<>>), varchar(TagDesc, <<>>), varchar(TagVendor, <<>>),
       varchar(TagLicense, <<>>), varchar(TagURL, <<>>) >>

writeMetadata(c) == writeFields(controlToFields(c), FALSE)

-----------------------------------------------------------------------------
(* package rpm: writeLead and builder.Build *)

\* the Name field of the lead: n[:66], or n and zeroes up to 66 bytes
LeadName(n) == IF Len(n) > 66 THEN Take(n, 66) ELSE n \o Repeat(0, 66 - Len(n))

\* Lead, declared elsewhere in package rpm: Major and Minor of one byte;
\* Type, Arch, Os and SigType of two
Lead(name) ==
    [Major |-> MajorRPM, Minor |-> MinorRPM, Type |-> 0, Arch |-> 0, Name |-> name,
     Os |-> 0, SigType |-> SigTypeRPM]

\* the bytes writeLead copies to the sink
LeadBytes(e) ==
    MagicRPM \o BigEndian(e.Major, 1) \o BigEndian(e.Minor, 1) \o BigEndian(e.Type, 2)
        \o BigEndian(e.Arch, 2) \o LeadName(e.Name) \o BigEndian(e.Os, 2)
        \o BigEndian(e.SigType, 2) \o Repeat(0, 16)

\* A write of bs to a sink that takes cap bytes in all: [sink, err]
SinkWrite(sink, cap, bs) ==
    IF Len(sink) + Len(bs) <= cap THEN [sink |-> sink \o bs, err |-> "nil"]
    ELSE [sink |-> sink \o Take(bs, cap - Len(sink)), err |-> "ErrShortWrite"]

\* md5.Sum and sha1.Sum are outside the repository: a digest of n bytes that
\* depends on the bytes digested
DigestOf(bs, n) == [i \in 1..n |-> (SumSeq(bs) + Len(bs) + i) % 256]

\* cpio.Writer is outside the repository: the archive holds a header and the
\* content per file
CpioEntry(f) == <<Len(f.name), Len(f.data)>> \o f.name \o f.data

\* the 10 bytes gzip.Writer writes at its first Write, at BestCompression
GzipHeader == <<31, 139, 8, 0, 0, 0, 0, 0, 2, 255>>

\* io.Copy(gz, body) with gz neither flushed nor closed: bz holds the gzip
\* header and the deflate output written so far, which is none for an
\* archive smaller than the compressor's window, as all archives here are
\* (io.Copy makes no Write for an empty archive)
GzipOf(bs) == IF bs = <<>> THEN <<>> ELSE GzipHeader

\* the fields of the signature block
SignatureFields(data) ==
    << number(SigLength, Int32, Len(data)), binarray(SigMD5, DigestOf(data, 16)),
       binarray(SigSha1, DigestOf(data, 20)) >>

\* a variant of EmitOrder: the signature block copied after the data
EmitOrderLast(sig, data) == data \o sig

\* io.MultiReader(sig, &data): what Build copies to the sink at the end
EmitOrder(sig, data) == sig \o data

\* writeLead(w.inner, e); a failed copy ends the build
BuildLead ==
    /\ bld.pc = "lead"
    /\ bld' = [bld EXCEPT
                !.sink = SinkWrite(bld.sink, bld.cap, LeadBytes(Lead(bld.c.Package))).sink,
                !.ret = SinkWrite(bld.sink, bld.cap, LeadBytes(Lead(bld.c.Package))).err,
                !.pc = IF SinkWrite(bld.sink, bld.cap, LeadBytes(Lead(bld.c.Package))).err = "nil"
                       THEN "meta" ELSE "done"]
    /\ UNCHANGED <<r, last, crashed, arch, lst, w, drv, fs, pad, enc>>

\* meta, err := writeMetadata(&c)
BuildMetadata ==
    /\ bld.pc = "meta"
    /\ bld' = [bld EXCEPT !.meta = <<writeMetadata(bld.c)>>, !.pc = "archive"]
    /\ UNCHANGED <<r, last, crashed, arch, lst, w, drv, fs, pad, enc>>

\* one turn of writeArchive's loop: writeFile opens the file, which may
\* fail, and copies it to the cpio writer; its digest, size and name are kept
BuildFile ==
    /\ bld.pc = "archive"
    /\ Len(bld.sizes) < Len(bld.files)
    /\ bld' = IF ~bld.files[Len(bld.sizes) + 1].openable
              THEN [bld EXCEPT !.ret = "ErrOpen", !.pc = "done"]
              ELSE [bld EXCEPT
                      !.opened = bld.opened + 1,
                      !.ark = bld.ark \o CpioEntry(bld.files[Len(bld.sizes) + 1]),
                      !.sizes = Append(bld.sizes,
                                       Len(DigestOf(bld.files[Len(bld.sizes) + 1].data, 16))),
                      !.md5sums = Append(bld.md5sums,
                                         DigestOf(bld.files[Len(bld.sizes) + 1].data, 16)),
                      !.filenames = Append(bld.filenames, bld.files[Len(bld.sizes) + 1].name)]
    /\ UNCHANGED <<r, last, crashed, arch, lst, w, drv, fs, pad, enc>>

\* the end of writeArchive: ark.Close(), the archive copied through gzip
BuildCompress ==
    /\ bld.pc = "archive"
    /\ Len(bld.sizes) = Len(bld.files)
    /\ bld' = [bld EXCEPT !.body = <<GzipOf(bld.ark)>>, !.pc = "emit"]
    /\ UNCHANGED <<r, last, crashed, arch, lst, w, drv, fs, pad, enc>>

\* data = meta || body with its length and digests, sig = writeFields(fs,
\* true), then io.Copy(w.inner, io.MultiReader(sig, &data)), whose error is
\* Build's
BuildEmit ==
    /\ bld.pc = "emit"
    /\ bld' = [bld EXCEPT
                !.sig = <<writeFields(SignatureFields(bld.meta[1] \o bld.body[1]), TRUE)>>,
                !.sink = SinkWrite(bld.sink, bld.cap,
                            EmitOrder(writeFields(SignatureFields(bld.meta[1] \o bld.body[1]), TRUE),
                                      bld.meta[1] \o bld.body[1])).sink,
                !.ret = SinkWrite(bld.sink, bld.cap,
                            EmitOrder(writeFields(SignatureFields(bld.meta[1] \o bld.body[1]), TRUE),
                                      bld.meta[1] \o bld.body[1])).err,
                !.pc = "done"]
    /\ UNCHANGED <<r, last, crashed, arch, lst, w, drv, fs, pad, enc>>

-----------------------------------------------------------------------------
(* The archives the Reader is given *)

MaxEntries == 2
MaxLen == 2
\* the lengths of the buffers a caller hands Read: empty, one byte, a whole payload
Bufs == {0, 1, MaxLen}

\* the payload of an entry: length bytes, then the pad byte of an odd length
PayloadOf(length) == [i \in 1..length |-> 97 + (i % 3)]

EntryHeader(length) == Header(<<97>>, 0, 0, 420, length, Time(0, 0))

\* One entry as the Writer emits it, and how a defective one differs: a
\* trailer that is not linefeed, or a modification time that is no number.
Defect(hb, kind) ==
    IF kind = "trailer" THEN SubSeq(hb, 1, 58) \o <<LF, BQ>>
    ELSE IF kind = "number" THEN SubSeq(hb, 1, 16) \o <<122>> \o SubSeq(hb, 18, 60)
    ELSE hb

EntryBytes(length, kind) ==
    Defect(HeaderBytes(EntryHeader(length)), kind) \o WritePadded(PayloadOf(length))

\* how many bytes of the last entry a truncated archive may keep
Cuts == {0, 10, 16, 59, 61}

Archives ==
    { [lens |-> lens, kind |-> kind, at |-> at, keep |-> keep, fail |-> fail] :
        lens \in UNION { [1..n -> 0..MaxLen] : n \in 1..MaxEntries },
        kind \in {"none", "trailer", "number", "magic"},
        at \in 1..MaxEntries,
        keep \in Cuts \cup {60 + MaxLen + 1},
        fail \in {"EOF", "ErrIO"} }

\* an archive has one defect: an entry that is not well formed, or a cut
ValidArchive(a) ==
    /\ a.at <= Len(a.lens)
    /\ a.kind \in {"none", "magic"} => a.at = 1
    /\ a.kind \in {"trailer", "number"} => a.keep = 60 + MaxLen + 1
    /\ a.keep <= 60 + Len(WritePadded(PayloadOf(a.lens[Len(a.lens)])))
       \/ a.keep = 60 + MaxLen + 1

KindAt(a, i) == IF a.at = i /\ a.kind # "magic" THEN a.kind ELSE "none"

\* the bytes of the source; an archive of kind "magic" starts with another byte
StreamOf(a) ==
    (IF a.kind = "magic" THEN <<63>> \o Tail(magic) ELSE magic) \o <<LF>>
        \o Concat([i \in 1..(Len(a.lens) - 1) |-> EntryBytes(a.lens[i], KindAt(a, i))])
        \o Take(EntryBytes(a.lens[Len(a.lens)], KindAt(a, Len(a.lens))), a.keep)

\* the source holds every entry whole
Whole(a) == a.keep >= 60 + Len(WritePadded(PayloadOf(a.lens[Len(a.lens)])))

-----------------------------------------------------------------------------
(* The idle values of the parts a specification leaves alone *)

\* A call's record: the call (op), the call before it (prev) and whether that
\* was a Next that returned a header (prevok), the Reader's position and err
\* before the call (pos0, err0), and what the call returned.
NoCall ==
    [op |-> "none", prev |-> "none", prevok |-> FALSE, pos0 |-> 0, err0 |-> "nil",
     h |-> NilHeader, n |-> 0, data |-> <<>>, buf |-> 0, err |-> "nil"]
NoArchive == [lens |-> <<0>>, kind |-> "none", at |-> 1, keep |-> 0, fail |-> "EOF"]
NoList == [pc |-> "idle", hs |-> <<>>, ret |-> [hs |-> <<>>, err |-> "nil"]]
NoWriter == [inner |-> <<>>, hdr |-> NilHeader, err |-> "nil"]
NoDriver ==
    [pc |-> "idle", plan |-> <<>>, idx |-> 0, rest |-> <<>>, starts |-> <<>>,
     ends |-> <<>>, cur |-> 0, got |-> <<>>]
NoBuild ==
    [pc |-> "idle", c |-> [Package |-> <<>>, Version |-> <<>>], files |-> <<>>, cap |-> 0,
     sink |-> <<>>, meta |-> <<>>, body |-> <<>>, sig |-> <<>>, ark |-> <<>>, opened |-> 0,
     md5sums |-> <<>>, filenames |-> <<>>, sizes |-> <<>>, ret |-> "nil"]

arIdle == r = NoReader /\ last = NoCall /\ crashed = FALSE /\ arch = NoArchive
listIdle == lst = NoList
writerIdle == w = NoWriter /\ drv = NoDriver
rpmIdle == fs = <<>> /\ pad = FALSE /\ enc = <<>> /\ bld = NoBuild

-----------------------------------------------------------------------------
(* Specification Spec: a caller of the Reader making Next and Read calls *)

Init ==
    /\ arch \in {a \in Archives : ValidArchive(a) /\ a.kind # "magic"}
    /\ r = NewReader(StreamOf(arch), arch.fail).r
    /\ last = NoCall
    /\ crashed = FALSE
    /\ listIdle /\ writerIdle /\ rpmIdle

Called(op, x, buflen) ==
    [op |-> op, prev |-> last.op, prevok |-> last.op = "Next" /\ last.h # NilHeader,
     pos0 |-> r.inner.pos, err0 |-> r.err,
     h |-> x.h, n |-> x.n, data |-> x.data, buf |-> buflen, err |-> x.err]

\* h, err := r.Next()
DoNext ==
    /\ ~crashed
    /\ \E short \in BOOLEAN :
        /\ r' = ReaderNext(r, short).r
        /\ last' = Called("Next", [h |-> ReaderNext(r, short).h, n |-> 0, data |-> <<>>,
                                   err |-> ReaderNext(r, short).err], 0)
    /\ UNCHANGED <<crashed, arch, lst, w, drv, fs, pad, enc, bld>>

\* n, err := r.Read(bs)
DoRead ==
    /\ ~crashed
    /\ \E buflen \in Bufs :
        IF ReadPanics(r)
        THEN /\ crashed' = TRUE
             /\ last' = Called("Read", [h |-> NilHeader, n |-> 0, data |-> <<>>,
                                        err |-> "panic"], buflen)
             /\ r' = r
        ELSE /\ r' = ReaderRead(r, buflen).r
             /\ last' = Called("Read", [h |-> NilHeader, n |-> ReaderRead(r, buflen).n,
                                        data |-> ReaderRead(r, buflen).data,
                                        err |-> ReaderRead(r, buflen).err], buflen)
             /\ crashed' = crashed
    /\ UNCHANGED <<arch, lst, w, drv, fs, pad, enc, bld>>

Next == DoNext \/ DoRead

Spec == Init /\ [][Next]_vars


-----------------------------------------------------------------------------
(* List *)

\* the buffer io.Discard reads into (io.CopyN copies through Discard.ReadFrom)
DiscardBuf == 8 * 1024

\* what io.CopyN returns when the copy stopped on err: io.EOF stops
\* Discard.ReadFrom without error, and CopyN makes a short copy io.EOF again
CopyStopped(x) == [r |-> x.r, err |-> x.err]

RECURSIVE CopyLoop(_, _)
\* The copy loop of io.CopyN(ioutil.Discard, r, n) with n bytes still to
\* come: the LimitedReader answers io.EOF at n = 0, else hands Reader.Read a
\* buffer of min(len(buf), n) bytes.
CopyRead(x, n) ==
    IF x.err # "nil" THEN CopyStopped(x) ELSE CopyLoop(x.r, n - x.n)

CopyLoop(rd, n) ==
    IF n <= 0 THEN [r |-> rd, err |-> "nil"]
    ELSE CopyRead(ReaderRead(rd, Min(DiscardBuf, n)), n)

\* io.CopyN(ioutil.Discard, r, n): [r, err]
CopyN(rd, n) == CopyLoop(rd, n)

\* os.Open, then NewReader: List returns nil and the error of either
ListOpen ==
    /\ lst.pc = "start"
    /\ \E opened \in BOOLEAN :
        IF ~opened
        THEN /\ lst' = [lst EXCEPT !.pc = "done", !.ret = [hs |-> <<>>, err |-> "ErrOpen"]]
             /\ r' = r
        ELSE IF ~NewReader(StreamOf(arch), arch.fail).ok
        THEN /\ lst' = [lst EXCEPT !.pc = "done",
                          !.ret = [hs |-> <<>>, err |-> NewReader(StreamOf(arch), arch.fail).err]]
             /\ r' = r
        ELSE /\ lst' = [lst EXCEPT !.pc = "loop"]
             /\ r' = NewReader(StreamOf(arch), arch.fail).r
    /\ UNCHANGED <<last, crashed, arch, w, drv, fs, pad, enc, bld>>

\* One turn of List's loop with x what r.Next() returned: break on io.EOF;
\* else hs = append(hs, h) and the payload skipped with io.CopyN(.., r,
\* int64(h.Length)), which dereferences h: a nil h panics.
ListTurn(x) ==
    IF x.err = "EOF"
    THEN /\ lst' = [lst EXCEPT !.pc = "done", !.ret = [hs |-> lst.hs, err |-> "nil"]]
         /\ r' = x.r
         /\ crashed' = crashed
    ELSE IF x.h = NilHeader
    THEN /\ lst' = [lst EXCEPT !.pc = "panic", !.hs = Append(lst.hs, x.h)]
         /\ r' = x.r
         /\ crashed' = TRUE
    ELSE IF CopyN(x.r, x.h[1].Length).err # "nil"
    THEN /\ lst' = [lst EXCEPT !.pc = "done", !.hs = Append(lst.hs, x.h),
                      !.ret = [hs |-> <<>>, err |-> CopyN(x.r, x.h[1].Length).err]]
         /\ r' = CopyN(x.r, x.h[1].Length).r
         /\ crashed' = crashed
    ELSE /\ lst' = [lst EXCEPT !.hs = Append(lst.hs, x.h)]
         /\ r' = CopyN(x.r, x.h[1].Length).r
         /\ crashed' = crashed

\* The file List opens is a regular file that fits bufio's buffer, so the
\* trailer's two bytes are read together.
ListIter ==
    /\ lst.pc = "loop"
    /\ ListTurn(ReaderNext(r, FALSE))
    /\ UNCHANGED <<last, arch, w, drv, fs, pad, enc, bld>>

InitList ==
    /\ arch \in {a \in Archives : ValidArchive(a)}
    /\ r = NoReader /\ last = NoCall /\ crashed = FALSE
    /\ lst = [pc |-> "start", hs |-> <<>>, ret |-> [hs |-> <<>>, err |-> "nil"]]
    /\ writerIdle /\ rpmIdle

NextList == ListOpen \/ ListIter

SpecList == InitList /\ [][NextList]_vars

-----------------------------------------------------------------------------
(* Specification SpecRT: a caller writes entries with the Writer into a     *)
(* buffer, then reads the buffer back with the Reader.                      *)

\* the headers the first entry is written with (its Length is the payload's)
Names == {<<97>>, <<97, SLASH>>}
Uids == {0, 12}
Modes == {0, 7, 420}
ModTimes == {Time(0, 0), Time(5, 500)}

Entry(h) == [h |-> h, p |-> PayloadOf(h.Length)]

FirstEntries ==
    { Entry(Header(name, uid, 0, mode, length, mt)) :
        name \in Names, uid \in Uids, mode \in Modes, length \in 0..MaxLen, mt \in ModTimes }

MoreEntries == { Entry(EntryHeader(length)) : length \in 0..MaxLen }

Plans ==
    UNION { { <<e>> \o more : e \in FirstEntries, more \in [1..n -> MoreEntries] } :
            n \in 0..(MaxEntries - 1) }

InitRT ==
    /\ w = NewWriter
    /\ drv \in { [pc |-> "header", plan |-> plan, idx |-> 1, rest |-> <<>>,
                  starts |-> <<>>, ends |-> <<>>, cur |-> 0, got |-> <<>>] : plan \in Plans }
    /\ arIdle /\ listIdle /\ rpmIdle

\* the entry is complete when its payload is written: the next one, or the reading
PayloadDone(d, sink) ==
    [d EXCEPT !.rest = <<>>, !.ends = Append(d.ends, Len(sink)), !.idx = d.idx + 1,
              !.pc = IF d.idx = Len(d.plan) THEN "open" ELSE "header"]

\* w.WriteHeader(&h) for the next entry of the plan
RtWriteHeader ==
    /\ drv.pc = "header"
    /\ IF WriteHeaderPanics(drv.plan[drv.idx].h)
       THEN /\ crashed' = TRUE
            /\ drv' = [drv EXCEPT !.pc = "panic"]
            /\ w' = [w EXCEPT !.hdr = <<drv.plan[drv.idx].h>>]
       ELSE /\ crashed' = crashed
            /\ w' = WriterWriteHeader(w, drv.plan[drv.idx].h).w
            /\ drv' = IF drv.plan[drv.idx].p = <<>>
                      THEN PayloadDone([drv EXCEPT !.starts = Append(drv.starts, Len(w.inner))],
                                       w'.inner)
                      ELSE [drv EXCEPT !.pc = "data", !.rest = drv.plan[drv.idx].p,
                                       !.starts = Append(drv.starts, Len(w.inner))]
    /\ UNCHANGED <<r, last, arch, lst, fs, pad, enc, bld>>

\* w.Write(bs) with bs the next k bytes of the payload
RtWrite ==
    /\ drv.pc = "data"
    /\ \E k \in 1..Len(drv.rest) :
        /\ w' = WriterWrite(w, Take(drv.rest, k)).w
        /\ drv' = IF k = Len(drv.rest) THEN PayloadDone(drv, w'.inner)
                  ELSE [drv EXCEPT !.rest = Drop(drv.rest, k)]
    /\ UNCHANGED <<r, last, crashed, arch, lst, fs, pad, enc, bld>>

\* NewReader over the bytes written
RtOpen ==
    /\ drv.pc = "open"
    /\ r' = NewReader(w.inner, "EOF").r
    /\ drv' = [drv EXCEPT !.pc = "read"]
    /\ UNCHANGED <<last, crashed, arch, lst, w, fs, pad, enc, bld>>

\* the entry that starts at the Reader's position, 0 when none does
EntryAt(pos) ==
    IF \E k \in 1..Len(drv.starts) : drv.starts[k] = pos
    THEN CHOOSE k \in 1..Len(drv.starts) : drv.starts[k] = pos
    ELSE 0

\* h, err := r.Next(); the buffer is in memory, so the trailer is read whole
RtNext ==
    /\ drv.pc = "read" /\ ~crashed
    /\ r' = ReaderNext(r, FALSE).r
    /\ last' = Called("Next", [h |-> ReaderNext(r, FALSE).h, n |-> 0, data |-> <<>>,
                               err |-> ReaderNext(r, FALSE).err], 0)
    /\ drv' = [drv EXCEPT !.got = <<>>,
                          !.cur = IF ReaderNext(r, FALSE).h # NilHeader
                                  THEN EntryAt(r.inner.pos) ELSE 0]
    /\ UNCHANGED <<crashed, arch, lst, w, fs, pad, enc, bld>>

\* n, err := r.Read(bs), the bytes returned kept by the caller, who reads
\* after a Next that gave a header and until it has the Length bytes of it
RtRead ==
    /\ drv.pc = "read" /\ ~crashed
    /\ r.hdr # NilHeader /\ r.err = "nil"
    /\ last.op = "Next" \/ Len(drv.got) < r.hdr[1].Length
    /\ \E buflen \in Bufs \ {0} :
        IF ReadPanics(r)
        THEN /\ crashed' = TRUE
             /\ last' = Called("Read", [h |-> NilHeader, n |-> 0, data |-> <<>>,
                                        err |-> "panic"], buflen)
             /\ r' = r
             /\ drv' = drv
        ELSE /\ r' = ReaderRead(r, buflen).r
             /\ last' = Called("Read", [h |-> NilHeader, n |-> ReaderRead(r, buflen).n,
                                        data |-> ReaderRead(r, buflen).data,
                                        err |-> ReaderRead(r, buflen).err], buflen)
             /\ drv' = [drv EXCEPT !.got = drv.got \o ReaderRead(r, buflen).data]
             /\ crashed' = crashed
    /\ UNCHANGED <<arch, lst, w, fs, pad, enc, bld>>

NextRT == RtWriteHeader \/ RtWrite \/ RtOpen \/ RtNext \/ RtRead

SpecRT == InitRT /\ [][NextRT]_vars

-----------------------------------------------------------------------------
(* Specification SpecFields: a Field list is put together and encoded *)

MaxFields == 3

FieldSet ==
    { number(SigLength, Int32, 300), number(SigLength, Int8, 1),
      number(SigLength, Int64, 0 - 2), number(SigLength, String, 7),
      binarray(SigMD5, <<>>), binarray(SigMD5, <<1, 2, 3>>),
      varchar(TagPackage, <<>>), varchar(TagPackage, <<100, 101>>) }

InitFields ==
    /\ fs = <<>> /\ pad \in BOOLEAN /\ enc = <<>> /\ bld = NoBuild
    /\ arIdle /\ listIdle /\ writerIdle

\* fs = append(fs, f)
AddField ==
    /\ enc = <<>>
    /\ Len(fs) < MaxFields
    /\ \E f \in FieldSet : fs' = Append(fs, f)
    /\ UNCHANGED <<r, last, crashed, arch, lst, w, drv, pad, enc, bld>>

\* writeFields(fs, pad)
Encode ==
    /\ enc = <<>>
    /\ enc' = <<writeFields(fs, pad)>>
    /\ UNCHANGED <<r, last, crashed, arch, lst, w, drv, fs, pad, bld>>

NextFields == AddField \/ Encode

SpecFields == InitFields /\ [][NextFields]_vars

-----------------------------------------------------------------------------
(* Specification SpecBuild: one call of builder.Build *)

MaxFiles == 2

Controls == { [Package |-> p, Version |-> v] : p \in {<<>>, <<100>>}, v \in {<<>>, <<49>>} }

Files ==
    { [name |-> <<102>>, data |-> <<1, 2>>, openable |-> TRUE],
      [name |-> <<103>>, data |-> <<>>, openable |-> TRUE],
      [name |-> <<104>>, data |-> <<>>, openable |-> FALSE] }

\* how many bytes the sink takes before its writes fail
SinkCaps == {0, 50, 96, 150, 250, 100000}

InitBuild ==
    /\ bld \in { [NoBuild EXCEPT !.pc = "lead", !.c = c, !.files = files, !.cap = cap] :
                    c \in Controls,
                    files \in UNION { [1..n -> Files] : n \in 0..MaxFiles },
                    cap \in SinkCaps }
    /\ fs = <<>> /\ pad = FALSE /\ enc = <<>>
    /\ arIdle /\ listIdle /\ writerIdle

NextBuild == BuildLead \/ BuildMetadata \/ BuildFile \/ BuildCompress \/ BuildEmit

SpecBuild == InitBuild /\ [][NextBuild]_vars

-----------------------------------------------------------------------------
(* Claims on the Reader, under Spec *)

\* the Reader's position before the last call, as a bufio.Reader
Before == [r.inner EXCEPT !.pos = last.pos0]

\* C1: a Read made before any Next gave a header, or made again right after a
\* Read that returned the payload of the current entry without error, is
\* rejected with an error: it does not crash and it consumes no byte.
C1_ReadMisuseRejected ==
    (/\ last.op = "Read"
     /\ last.err0 = "nil"
     /\ r.hdr = NilHeader \/ last.prev = "Read")
    => (~crashed /\ last.err \notin {"nil", "panic"} /\ r.inner.pos = last.pos0)

\* C2: when the 2 bytes after the six header fields are not 0x60 0x0A, Next
\* returns a non-nil error and no header.
C2_BadTrailerFails ==
    (/\ last.op = "Next"
     /\ last.err0 = "nil"
     /\ Avail(Before) >= 58
     /\ SubSeq(r.inner.data, last.pos0 + 59, Min(last.pos0 + 60, Len(r.inner.data)))
            # linefeed)
    => (last.err # "nil" /\ last.h = NilHeader)

\* C4: Next answers io.EOF exactly when the source ends with fewer than 16
\* bytes left; when the source fails there instead, Next answers the failure,
\* not io.EOF.
C4_EndOfArchive ==
    (last.op = "Next" /\ last.err0 = "nil")
    => /\ (Avail(Before) < 16 /\ r.inner.fail = "EOF") => last.err = "EOF"
       /\ (Avail(Before) < 16 /\ r.inner.fail = "ErrIO") => last.err = "ErrIO"
       /\ last.err = "EOF" => (Avail(Before) < 16 /\ r.inner.fail = "EOF")

\* The Read that follows a Next that returned a header of length L consumes
\* L bytes and, exactly when L is odd, one byte more (as far as the source
\* has them).
FirstReadAligned ==
    (last.op = "Read" /\ last.prevok /\ ~crashed)
    => r.inner.pos = Min(last.pos0 + r.hdr[1].Length + (r.hdr[1].Length % 2),
                         Len(r.inner.data))

\* C10: over any sequence of Next and Read calls, once the payload of an
\* entry of length L was read the Reader stands L + (L mod 2) bytes past the
\* entry's header, one pad byte discarded exactly when L is odd: the first
\* Read after the Next consumes that many bytes, and a Read after a Read
\* consumes no more, so that the following Next starts at the next header.
C10_PadDiscarded ==
    /\ FirstReadAligned
    /\ (last.op = "Read" /\ last.prev = "Read" /\ ~crashed) => r.inner.pos = last.pos0


-----------------------------------------------------------------------------
(* Claims on List, under SpecList *)

\* the header of the defective entry is wholly in the source
DefectReached(a) ==
    a.kind \in {"trailer", "number"} /\ (a.at < Len(a.lens) \/ a.keep >= 60)

\* C3: List does not crash; on an archive with a defective header (a bad
\* trailer, a malformed number) it returns an error and no header list; on a
\* whole archive without defect, read from a source that ends with io.EOF, it
\* returns no error and one header per entry, in the order of the archive.
C3_ListFailsFast ==
    /\ lst.pc # "panic"
    /\ (lst.pc = "done" /\ DefectReached(arch) /\ lst.ret.err # "ErrOpen")
        => (lst.ret.err # "nil" /\ lst.ret.hs = <<>>)
    /\ (lst.pc = "done" /\ arch.kind = "none" /\ Whole(arch) /\ arch.fail = "EOF"
            /\ lst.ret.err # "ErrOpen")
        => /\ lst.ret.err = "nil"
           /\ Len(lst.ret.hs) = Len(arch.lens)
           /\ \A i \in 1..Len(arch.lens) : lst.ret.hs[i][1].Length = arch.lens[i]


-----------------------------------------------------------------------------
(* Claims on the round trip, under SpecRT *)

IsPrefix(s, t) == Len(s) <= Len(t) /\ s = SubSeq(t, 1, Len(s))

\* C5: an entry of payload length L takes 58 + 2 + L + (L mod 2) bytes of the
\* archive however the payload is split across Write calls; and the bytes the
\* Read calls return after the entry's Next, whatever the size of their
\* buffers, are the payload's: a buffer of at least L bytes gets all L at
\* once, smaller ones get them in order.
C5_PayloadRoundTrip ==
    /\ \A k \in 1..Len(drv.ends) :
        drv.ends[k] - drv.starts[k]
            = 58 + 2 + Len(drv.plan[k].p) + (Len(drv.plan[k].p) % 2)
    /\ (drv.pc = "read" /\ drv.cur > 0 /\ ~crashed)
        => /\ IsPrefix(Take(drv.got, Len(drv.plan[drv.cur].p)), drv.plan[drv.cur].p)
           /\ (last.op = "Read" /\ last.prevok /\ last.buf >= Len(drv.plan[drv.cur].p))
                => (last.data = drv.plan[drv.cur].p /\ last.err = "nil")

\* C6: the header Next decodes where the Writer put the header h has h's
\* name, uid, gid, mode, length, and modification time to the second.
C6_HeaderRoundTrip ==
    (drv.pc = "read" /\ last.op = "Next" /\ last.h # NilHeader /\ drv.cur > 0)
    => /\ last.h[1].Name = drv.plan[drv.cur].h.Name
       /\ last.h[1].Uid = drv.plan[drv.cur].h.Uid
       /\ last.h[1].Gid = drv.plan[drv.cur].h.Gid
       /\ last.h[1].Mode = drv.plan[drv.cur].h.Mode
       /\ last.h[1].Length = drv.plan[drv.cur].h.Length
       /\ UnixOf(last.h[1].ModTime) = UnixOf(drv.plan[drv.cur].h.ModTime)


-----------------------------------------------------------------------------
(* Claims on writeFields, under SpecFields *)

\* the big-endian 32-bit number at offset off of bs (below 2^31)
U32At(bs, off) ==
    bs[off + 1] * 16777216 + bs[off + 2] * 65536 + bs[off + 3] * 256 + bs[off + 4]

Kept(f) == ~FieldSkip(f)
\* the fields writeFields does not skip, in order
Retained(fields) == SelectSeq(fields, Kept)
\* the serialized length of each field
ByteLens(fields) == [k \in 1..Len(fields) |-> Len(FieldBytes(fields[k]))]
\* the offset the index of the encoded section gives entry j
OffsetOf(bs, j) == U32At(bs, 16 + 16 * (j - 1) + 8)

\* C7: the section declares as many entries as fields were retained and a
\* store as long as their serialized bytes together; the offset of each index
\* entry is the length of the bytes of the retained fields before it; the
\* offsets never decrease.
C7_OffsetInvariant ==
    enc # <<>> =>
        /\ U32At(enc[1], 8) = Len(Retained(fs))
        /\ U32At(enc[1], 12) = SumSeq(ByteLens(Retained(fs)))
        /\ \A j \in 1..Len(Retained(fs)) :
            OffsetOf(enc[1], j) = SumSeq(SubSeq(ByteLens(Retained(fs)), 1, j - 1))
        /\ \A j \in 1..(Len(Retained(fs)) - 1) : OffsetOf(enc[1], j) <= OffsetOf(enc[1], j + 1)

\* a list with a skipped field was encoded and its last entry lies past others' bytes
C7_Witness ==
    /\ enc # <<>>
    /\ Len(Retained(fs)) >= 2
    /\ Len(Retained(fs)) < Len(fs)
    /\ OffsetOf(enc[1], Len(Retained(fs))) > 0

\* the length of the section before any padding
UnpaddedLen == 16 + 16 * Len(Retained(fs)) + SumSeq(ByteLens(Retained(fs)))

\* C8: with pad the section's length is a multiple of 8, reached by adding
\* fewer than 8 bytes, all zero; without pad it is 16 + 16 * entries + store.
C8_Padding ==
    enc # <<>> =>
        IF pad
        THEN /\ Len(enc[1]) % 8 = 0
             /\ Len(enc[1]) - UnpaddedLen \in 0..7
             /\ \A k \in (UnpaddedLen + 1)..Len(enc[1]) : enc[1][k] = 0
        ELSE Len(enc[1]) = UnpaddedLen

\* a section whose length was no multiple of 8 was padded
C8_Witness ==
    /\ enc # <<>> /\ pad
    /\ UnpaddedLen % 8 # 0
    /\ Len(enc[1]) > UnpaddedLen
    /\ Len(enc[1]) % 8 = 0

-----------------------------------------------------------------------------
(* Claims on Build, under SpecBuild *)

LeadOf(b) == LeadBytes(Lead(b.c.Package))

\* C9: a build that returns no error has written the lead, the signature
\* block, the metadata block and the compressed payload, in this order and
\* nothing else; a source file is opened only once the lead is in the sink;
\* bytes follow the lead in the sink only once the metadata block and the
\* payload exist, and they are the signature block's first.
C9_EmissionOrder ==
    /\ (bld.pc = "done" /\ bld.ret = "nil")
        => (/\ bld.sig # <<>> /\ bld.meta # <<>> /\ bld.body # <<>>
            /\ bld.sink = LeadOf(bld) \o bld.sig[1] \o bld.meta[1] \o bld.body[1])
    /\ bld.opened > 0 => Take(bld.sink, Len(LeadOf(bld))) = LeadOf(bld)
    /\ Len(bld.sink) > Len(LeadOf(bld))
        => (/\ bld.sig # <<>> /\ bld.meta # <<>> /\ bld.body # <<>>
            /\ IsPrefix(Drop(bld.sink, Len(LeadOf(bld))),
                        bld.sig[1] \o bld.meta[1] \o bld.body[1])
            /\ bld.sink[Len(LeadOf(bld)) + 1] = bld.sig[1][1])

\* a build of two files ended without error
C9_Witness ==
    /\ bld.pc = "done" /\ bld.ret = "nil"
    /\ bld.opened = 2
    /\ Len(bld.sink) > Len(LeadOf(bld)) + Len(bld.sig[1])

=============================================================================
